---- MODULE Spec2Model ----
(***************************************************************************)
(* Model of visualize.py: the three-line-element parser load_satellites    *)
(* and the module-level pipeline (fetch, parse, propagate, scene assembly, *)
(* animation frames, export).                                               *)
(*                                                                         *)
(* Text is modelled as sequences of one-character strings, so that         *)
(* str.strip and str.startswith are computed and not assumed.  Python      *)
(* indices are kept 0-based in the variables; Sequences are 1-based, so a  *)
(* Python lines[i] is lines[i + 1] here.                                   *)
(***************************************************************************)
EXTENDS Integers, Sequences, FiniteSets, TLC

VARIABLES
    pc,              \* position of the script
    status,          \* outcome of requests.get: no answer, or an HTTP status code
    body,            \* response.text.splitlines() as the server would send it
    now,             \* the wall clock of the host (never read by the script)
    max_sats,        \* MAX_SATS / the max_sats argument
    num_frames,      \* NUM_FRAMES
    stride,          \* step of the frame export range
    fetches,         \* number of requests.get calls made
    lines,           \* load_satellites: lines
    satellites,      \* load_satellites: satellites, then the module's list
    i,               \* loop index of the parse / trace / marker loops
    start_time,      \* start_time
    positions,       \* positions
    names,           \* names
    colors,          \* colors
    orbit_traces,    \* orbit_traces
    initial_markers, \* initial_markers
    fig,             \* fig: [data, frames, camera]
    frames,          \* frames
    frame_num,       \* frame_num of the loop being run
    frame_idx,       \* frame_idx of the export loop
    view,            \* index into camera_views
    dirs,            \* directories created
    files            \* files written, in order, each with what it shows

vars == <<pc, status, body, now, max_sats, num_frames, stride, fetches, lines,
          satellites, i, start_time, positions, names, colors, orbit_traces,
          initial_markers, fig, frames, frame_num, frame_idx, view, dirs, files>>

parseVars == <<lines, satellites, i>>
sceneVars == <<start_time, positions, names, colors, orbit_traces,
               initial_markers, fig, frames, frame_num, frame_idx, view>>
outVars   == <<dirs, files>>
cfgVars   == <<status, body, now, max_sats, num_frames, stride>>

----------------------------------------------------------------------------
(* Bounds of the model *)

MaxLines  == 9    \* longest input of the parser specification
MaxM      == 2    \* largest max_sats of the parser specification
MaxGroups == 11   \* most well-formed groups of a pipeline input
MaxTens   == 1    \* pipeline max_sats reaches 10 * MaxTens + 1
MaxFrames == 3    \* largest NUM_FRAMES of the bounded configurations
MaxStride == 2    \* largest export stride of the bounded configurations
MaxFairLines  == 8   \* longest input of the parser's liveness specification
MaxFairGroups == 2   \* most well-formed groups of the pipeline's liveness specification

(* Program constants *)

MAX_SATS    == 30
NUM_FRAMES  == 300
FRAME_STEP  == 2
NAME_LEN    == 20

----------------------------------------------------------------------------
(* Text *)

Whitespace == {" ", "\t"}

RECURSIVE lstrip(_)
lstrip(s) ==
    IF s = <<>> THEN s
    ELSE IF Head(s) \in Whitespace THEN lstrip(Tail(s)) ELSE s

RECURSIVE rstrip(_)
rstrip(s) ==
    IF s = <<>> THEN s
    ELSE IF s[Len(s)] \in Whitespace THEN rstrip(SubSeq(s, 1, Len(s) - 1)) ELSE s

strip(s) == rstrip(lstrip(s))

startswith(s, p) == Len(s) >= Len(p) /\ SubSeq(s, 1, Len(p)) = p

Digit(d) == CASE d = 0 -> "0" [] d = 1 -> "1" [] d = 2 -> "2" [] d = 3 -> "3"
              [] d = 4 -> "4" [] d = 5 -> "5" [] d = 6 -> "6" [] d = 7 -> "7"
              [] d = 8 -> "8" [] d = 9 -> "9"

RECURSIVE str(_)
str(n) == IF n < 10 THEN <<Digit(n)>> ELSE str(n \div 10) \o <<Digit(n % 10)>>

RECURSIVE zfill(_, _)
zfill(s, w) == IF Len(s) >= w THEN s ELSE zfill(<<"0">> \o s, w)

Prefix(s, n) == SubSeq(s, 1, IF Len(s) < n THEN Len(s) ELSE n)

----------------------------------------------------------------------------
(* load_satellites *)

P1 == <<"1", " ">>
P2 == <<"2", " ">>

EarthSatellite(line1, line2, name) ==
    [name |-> name, line1 |-> line1, line2 |-> line2]

AcceptLine1Only(line1, line2) == startswith(line1, P1)

Accept(line1, line2) == startswith(line1, P1) /\ startswith(line2, P2)

LoopCondOffByOne(n, idx, len, m) == n <= m /\ idx + 2 < len

LoopCondShort(n, idx, len, m) == n < m /\ idx + 1 < len

LoopCond(n, idx, len, m) == n < m /\ idx + 2 < len

(* lines[idx] of Python; "IndexError" past the end *)
LineAt(ls, idx) == IF idx < Len(ls) THEN ls[idx + 1] ELSE "IndexError"

ParseStep ==
    /\ pc = "parse"
    /\ LoopCond(Len(satellites), i, Len(lines), max_sats)
    /\ IF i + 2 >= Len(lines)
       THEN /\ pc' = "failed"
            /\ UNCHANGED <<satellites, i>>
       ELSE LET name  == strip(LineAt(lines, i))
                line1 == strip(LineAt(lines, i + 1))
                line2 == strip(LineAt(lines, i + 2))
            IN  /\ satellites' = IF Accept(line1, line2)
                                 THEN Append(satellites, EarthSatellite(line1, line2, name))
                                 ELSE satellites
                /\ i' = i + 3
                /\ pc' = "parse"
    /\ UNCHANGED <<lines, fetches>>
    /\ UNCHANGED <<cfgVars, sceneVars, outVars>>

ParseReturn ==
    /\ pc = "parse"
    /\ ~LoopCond(Len(satellites), i, Len(lines), max_sats)
    /\ pc' = "loaded"
    /\ UNCHANGED <<parseVars, fetches, cfgVars, sceneVars, outVars>>

----------------------------------------------------------------------------
(* Fetch: requests.get(url, timeout=10); raise_for_status(); splitlines() *)

(* An outcome of the request: no response at all (timeout, connection     *)
(* error) or a final response with a status code.                          *)
StatusCodes == {200, 304, 404, 503}

Responses == {[answered |-> FALSE, code |-> 0]}
                 \cup {[answered |-> TRUE, code |-> c] : c \in StatusCodes}

NeverRaise(code) == FALSE

(* Response.raise_for_status raises HTTPError for 4xx and 5xx only *)
RaiseForStatus(code) == 400 <= code /\ code < 600

Fetch ==
    /\ pc = "start"
    /\ fetches' = fetches + 1
    /\ IF ~status.answered \/ RaiseForStatus(status.code)
       THEN /\ pc' = "failed"
            /\ UNCHANGED parseVars
       ELSE /\ lines' = body
            /\ satellites' = <<>>
            /\ i' = 0
            /\ pc' = "parse"
    /\ UNCHANGED <<cfgVars, sceneVars, outVars>>

----------------------------------------------------------------------------
(* Time grid and propagation *)

(* what ts.now() would give *)
StartTimeNow == now

(* ts.utc(2026, 2, 1) *)
StartTime == <<2026, 2, 1>>

(* ts.linspace(start, start + DURATION_DAYS, n): point k of n from start *)
Linspace(start, n) == [k \in 1..n |-> [anchor |-> start, k |-> k - 1, n |-> n]]

(* One coordinate of the propagator's answer; the propagator is an        *)
(* uninterpreted function of the element set and the time point.          *)
Km(axis, sat, time) == <<axis, sat.line1, sat.line2, time>>

(* sat.at(t).position.km: a 3 x N array *)
PositionKm(sat, t) == [axis \in 1..3 |-> [k \in 1..Len(t) |-> Km(axis - 1, sat, t[k])]]

TimeGrid ==
    /\ pc = "loaded"
    /\ start_time' = StartTime
    /\ positions' = <<>>
    /\ names' = <<>>
    /\ pc' = "propagate"
    /\ UNCHANGED <<colors, orbit_traces, initial_markers, fig, frames,
                   frame_num, frame_idx, view>>
    /\ UNCHANGED <<parseVars, fetches, cfgVars, outVars>>

PropagateStep ==
    /\ pc = "propagate"
    /\ Len(positions) < Len(satellites)
    /\ LET sat == satellites[Len(positions) + 1]
       IN  /\ positions' = Append(positions, PositionKm(sat, Linspace(start_time, num_frames)))
           /\ names' = Append(names, Prefix(sat.name, NAME_LEN))
    /\ UNCHANGED <<pc, start_time, colors, orbit_traces, initial_markers, fig,
                   frames, frame_num, frame_idx, view>>
    /\ UNCHANGED <<parseVars, fetches, cfgVars, outVars>>

----------------------------------------------------------------------------
(* Colours *)

Palette == << <<"#", "6", "3", "6", "E", "F", "A">>,
              <<"#", "E", "F", "5", "5", "3", "B">>,
              <<"#", "0", "0", "C", "C", "9", "6">>,
              <<"#", "A", "B", "6", "3", "F", "A">>,
              <<"#", "F", "F", "A", "1", "5", "A">>,
              <<"#", "1", "9", "D", "3", "F", "3">>,
              <<"#", "F", "F", "6", "6", "9", "2">>,
              <<"#", "B", "6", "E", "8", "8", "0">>,
              <<"#", "F", "F", "9", "7", "F", "F">>,
              <<"#", "F", "E", "C", "B", "5", "2">> >>

RECURSIVE Repeat(_, _)
Repeat(s, n) == IF n <= 0 THEN <<>> ELSE s \o Repeat(s, n - 1)

ColorsNoCycle(m) == Palette

(* palette * (MAX_SATS // 10 + 1) *)
Colors(m) == Repeat(Palette, m \div 10 + 1)

MakeColors ==
    /\ pc = "propagate"
    /\ Len(positions) >= Len(satellites)
    /\ colors' = Colors(max_sats)
    /\ orbit_traces' = <<>>
    /\ i' = 0
    /\ pc' = "orbit_traces"
    /\ UNCHANGED <<start_time, positions, names, initial_markers, fig, frames,
                   frame_num, frame_idx, view>>
    /\ UNCHANGED <<lines, satellites, fetches, cfgVars, outVars>>

----------------------------------------------------------------------------
(* Scene: reference sphere, path traces, initial markers, figure *)

(* go.Surface(...): the sphere, fixed geometry *)
earth == [type |-> "surface", name |-> "Earth"]

(* colors[idx] / names[idx]: the index must lie inside the list *)
InRange(list, idx) == 0 <= idx /\ idx < Len(list)

(* go.Scatter3d(x=pos[0], y=pos[1], z=pos[2], mode='lines', ...) *)
PathTrace(pos, color, name) ==
    [type |-> "lines", x |-> pos[1], y |-> pos[2], z |-> pos[3],
     color |-> color, name |-> name]

(* go.Scatter3d(x=[pos[0, f]], y=[pos[1, f]], z=[pos[2, f]], mode='markers', ...) *)
Marker(pos, f, color, name) ==
    [type |-> "markers", x |-> <<pos[1][f + 1]>>, y |-> <<pos[2][f + 1]>>,
     z |-> <<pos[3][f + 1]>>, color |-> color, name |-> name]

MarkerCountRequested(sats, m) == m

(* range(len(satellites)) of the marker loops *)
MarkerCount(sats, m) == Len(sats)

OrbitTraceStep ==
    /\ pc = "orbit_traces"
    /\ i < Len(positions)
    /\ IF InRange(colors, i) /\ InRange(names, i)
       THEN /\ orbit_traces' = Append(orbit_traces,
                                      PathTrace(positions[i + 1], colors[i + 1], names[i + 1]))
            /\ i' = i + 1
            /\ pc' = pc
       ELSE /\ pc' = "failed"
            /\ UNCHANGED <<orbit_traces, i>>
    /\ UNCHANGED <<start_time, positions, names, colors, initial_markers, fig,
                   frames, frame_num, frame_idx, view>>
    /\ UNCHANGED <<lines, satellites, fetches, cfgVars, outVars>>

OrbitTracesDone ==
    /\ pc = "orbit_traces"
    /\ i >= Len(positions)
    /\ initial_markers' = <<>>
    /\ i' = 0
    /\ pc' = "initial_markers"
    /\ UNCHANGED <<start_time, positions, names, colors, orbit_traces, fig,
                   frames, frame_num, frame_idx, view>>
    /\ UNCHANGED <<lines, satellites, fetches, cfgVars, outVars>>

InitialMarkerStep ==
    /\ pc = "initial_markers"
    /\ i < MarkerCount(satellites, max_sats)
    /\ IF InRange(positions, i) /\ InRange(colors, i) /\ InRange(names, i)
          /\ num_frames > 0
       THEN /\ initial_markers' = Append(initial_markers,
                                         Marker(positions[i + 1], 0, colors[i + 1], names[i + 1]))
            /\ i' = i + 1
            /\ pc' = pc
       ELSE /\ pc' = "failed"
            /\ UNCHANGED <<initial_markers, i>>
    /\ UNCHANGED <<start_time, positions, names, colors, orbit_traces, fig,
                   frames, frame_num, frame_idx, view>>
    /\ UNCHANGED <<lines, satellites, fetches, cfgVars, outVars>>

DefaultEye == <<15, 15, 10>>    \* eye = (1.5, 1.5, 1), in tenths

(* go.Figure(data=[earth] + orbit_traces + initial_markers).data *)
FigureData(sphere, paths, markers) == <<sphere>> \o paths \o markers

BuildFigure ==
    /\ pc = "initial_markers"
    /\ i >= MarkerCount(satellites, max_sats)
    /\ fig' = [data   |-> FigureData(earth, orbit_traces, initial_markers),
               frames |-> <<>>,
               camera |-> <<>>]
    /\ frames' = <<>>
    /\ frame_num' = 0
    /\ pc' = "frames"
    /\ UNCHANGED <<start_time, positions, names, colors, orbit_traces,
                   initial_markers, frame_idx, view>>
    /\ UNCHANGED <<parseVars, fetches, cfgVars, outVars>>

----------------------------------------------------------------------------
(* Animation frames *)

MarkerUpdatesShifted(n, pos, cols, nms, f) ==
    [j \in 1..n |-> Marker(pos[(j % n) + 1], f, cols[j], nms[j])]

(* the inner loop over range(len(satellites)) of one frame *)
MarkerUpdates(n, pos, cols, nms, f) ==
    [j \in 1..n |-> Marker(pos[j], f, cols[j], nms[j])]

FrameStep ==
    /\ pc = "frames"
    /\ frame_num < num_frames
    /\ IF \A j \in 0..(MarkerCount(satellites, max_sats) - 1) :
              InRange(positions, j) /\ InRange(colors, j) /\ InRange(names, j)
       THEN /\ frames' = Append(frames,
                                [data |-> MarkerUpdates(MarkerCount(satellites, max_sats),
                                                        positions, colors, names, frame_num),
                                 name |-> str(frame_num)])
            /\ frame_num' = frame_num + 1
            /\ pc' = pc
       ELSE /\ pc' = "failed"
            /\ UNCHANGED <<frames, frame_num>>
    /\ UNCHANGED <<start_time, positions, names, colors, orbit_traces,
                   initial_markers, fig, frame_idx, view>>
    /\ UNCHANGED <<parseVars, fetches, cfgVars, outVars>>

(* fig.frames = frames; fig.update_layout(..., scene_camera=eye(1.5, 1.5, 1)) *)
Layout ==
    /\ pc = "frames"
    /\ frame_num >= num_frames
    /\ fig' = [fig EXCEPT !.frames = frames, !.camera = DefaultEye]
    /\ pc' = "makedirs"
    /\ UNCHANGED <<start_time, positions, names, colors, orbit_traces,
                   initial_markers, frames, frame_num, frame_idx, view>>
    /\ UNCHANGED <<parseVars, fetches, cfgVars, outVars>>

----------------------------------------------------------------------------
(* Export *)

(* camera_views, eyes in tenths *)
camera_views == << [eye |-> <<15, 15, 10>>,   name |-> "default"],
                   [eye |-> <<0, 20, 0>>,     name |-> "top"],
                   [eye |-> <<20, 0, 0>>,     name |-> "side"],
                   [eye |-> <<-15, -15, 10>>, name |-> "opposite"] >>

(* the marker traces of a figure's data *)
MarkerTraces(data) == SelectSeq(data, LAMBDA tr : tr.type = "markers")

(* what a written file shows of the figure it was given *)
Shown(kind, name, figure) ==
    [kind |-> kind, name |-> name, camera |-> figure.camera,
     ntraces |-> Len(figure.data), markers |-> MarkerTraces(figure.data)]

(* BaseFigure._perform_update on one trace: the update's properties win *)
MergeTrace(tr, upd) ==
    [k \in DOMAIN tr \cup DOMAIN upd |-> IF k \in DOMAIN upd THEN upd[k] ELSE tr[k]]

(* fig.update(data=upd) on a figure that already has traces: trace j is   *)
(* updated in place with upd[j % len(upd)]; an empty upd changes nothing  *)
FigUpdate(data, upd) ==
    IF Len(upd) = 0 THEN data
    ELSE [j \in 1..Len(data) |-> MergeTrace(data[j], upd[((j - 1) % Len(upd)) + 1])]

MakeDirs ==
    /\ pc = "makedirs"
    /\ dirs' = dirs \cup {"assets", "assets/frames"}
    /\ pc' = "overview"
    /\ UNCHANGED <<files, parseVars, fetches, cfgVars, sceneVars>>

(* fig.write_image("assets/static_overview.png", ...) *)
WriteOverview ==
    /\ pc = "overview"
    /\ files' = Append(files, Shown("static", "overview", fig))
    /\ view' = 0
    /\ pc' = "views"
    /\ UNCHANGED <<start_time, positions, names, colors, orbit_traces,
                   initial_markers, fig, frames, frame_num, frame_idx>>
    /\ UNCHANGED <<dirs, parseVars, fetches, cfgVars>>

ViewStep ==
    /\ pc = "views"
    /\ view < Len(camera_views)
    /\ LET v == camera_views[view + 1]
           f == [fig EXCEPT !.camera = v.eye]
       IN  /\ fig' = f
           /\ files' = Append(files, Shown("static", v.name, f))
    /\ view' = view + 1
    /\ UNCHANGED <<pc, start_time, positions, names, colors, orbit_traces,
                   initial_markers, frames, frame_num, frame_idx>>
    /\ UNCHANGED <<dirs, parseVars, fetches, cfgVars>>

(* reset camera; frame_idx = 0; enter range(0, NUM_FRAMES, 2) *)
ResetCamera ==
    /\ pc = "views"
    /\ view >= Len(camera_views)
    /\ fig' = [fig EXCEPT !.camera = DefaultEye]
    /\ frame_idx' = 0
    /\ frame_num' = 0
    /\ pc' = "export"
    /\ UNCHANGED <<start_time, positions, names, colors, orbit_traces,
                   initial_markers, frames, view>>
    /\ UNCHANGED <<parseVars, fetches, cfgVars, outVars>>

RangeStepOne(n, step) == n + 1

(* the next value of range(0, NUM_FRAMES, step) after n *)
RangeStep(n, step) == n + step

ExportStep ==
    /\ pc = "export"
    /\ frame_num < num_frames
    /\ IF InRange(frames, frame_num)
       THEN LET frame_data == frames[frame_num + 1].data
                f == [fig EXCEPT !.data = FigUpdate(fig.data,
                                     <<earth>> \o orbit_traces \o frame_data)]
            IN  /\ fig' = f
                /\ files' = Append(files, Shown("frame", zfill(str(frame_idx), 4), f))
                /\ frame_idx' = frame_idx + 1
                /\ frame_num' = RangeStep(frame_num, stride)
                /\ pc' = pc
       ELSE /\ pc' = "failed"
            /\ UNCHANGED <<fig, files, frame_idx, frame_num>>
    /\ UNCHANGED <<start_time, positions, names, colors, orbit_traces,
                   initial_markers, frames, view>>
    /\ UNCHANGED <<dirs, parseVars, fetches, cfgVars>>

(* fig.write_html("assets/starlink_3d_orbit.html") *)
WriteHtml ==
    /\ pc = "export"
    /\ frame_num >= num_frames
    /\ files' = Append(files, Shown("html", "starlink_3d_orbit", fig))
    /\ pc' = "done"
    /\ UNCHANGED <<dirs, parseVars, fetches, cfgVars, sceneVars>>

----------------------------------------------------------------------------
(* Inputs *)

(* lines of the parser specification: a valid line 1 with a trailing      *)
(* blank, a line 2 that is valid only once trimmed, and a line that is    *)
(* "1" once trimmed; each is malformed in the other positions of a group  *)
LineAlphabet == { <<"1", " ", "a", " ">>,
                  <<"\t", "2", " ", "b">>,
                  <<"1", " ">> }

RECURSIVE SeqsUpTo(_, _)
SeqsUpTo(S, n) ==
    IF n = 0 THEN {<<>>}
    ELSE LET shorter == SeqsUpTo(S, n - 1)
         IN  shorter \cup {Append(q, x) : q \in {r \in shorter : Len(r) = n - 1}, x \in S}

ParserInputs == SeqsUpTo(LineAlphabet, MaxLines)

(* group g of a pipeline input: distinct name and element lines; every    *)
(* third name is longer than the display truncation                        *)
GroupName(g) ==
    <<"S", "A", "T", "-">> \o str(g)
        \o (IF g % 3 = 0 THEN Repeat(<<"-", "L", "O", "N", "G">>, 4) ELSE <<>>)

GoodGroup(g) == << GroupName(g) \o <<" ">>,
                   <<"1", " ">> \o str(g),
                   <<"2", " ">> \o str(g) \o <<" ">> >>

BadGroup == << <<"B", "A", "D">>, <<"X", " ", "g">>, <<"2", " ", "0">> >>

RECURSIVE GoodGroups(_, _)
GoodGroups(from, to) ==
    IF from > to THEN <<>> ELSE GoodGroup(from) \o GoodGroups(from + 1, to)

(* k well-formed groups, with a malformed group after the first if bad *)
Blob(k, bad) ==
    IF ~bad THEN GoodGroups(1, k)
    ELSE GoodGroups(1, IF k < 1 THEN k ELSE 1) \o BadGroup \o GoodGroups(2, k)

PipelineInputs == {Blob(k, bad) : k \in 0..MaxGroups, bad \in BOOLEAN}

(* max_sats of the bounded configurations: around the palette length *)
SatChoices == {1, 2} \cup UNION {{10 * t, 10 * t + 1} : t \in 1..MaxTens}

(* possible readings of the host clock when the script starts *)
Clocks == {<<2026, 2, 1>>, <<2026, 11, 2>>}

OK200 == [answered |-> TRUE, code |-> 200]

----------------------------------------------------------------------------
(* Specifications *)

Blank ==
    /\ fetches = 0
    /\ lines = <<>>
    /\ satellites = <<>>
    /\ i = 0
    /\ start_time = <<>>
    /\ positions = <<>>
    /\ names = <<>>
    /\ colors = <<>>
    /\ orbit_traces = <<>>
    /\ initial_markers = <<>>
    /\ fig = [data |-> <<>>, frames |-> <<>>, camera |-> <<>>]
    /\ frames = <<>>
    /\ frame_num = 0
    /\ frame_idx = 0
    /\ view = 0
    /\ dirs = {}
    /\ files = <<>>

(* the script under small configurations and every outcome of the fetch *)
InitBounded ==
    /\ pc = "start"
    /\ status \in Responses
    /\ body \in PipelineInputs
    /\ now \in Clocks
    /\ max_sats \in SatChoices
    /\ num_frames \in 1..MaxFrames
    /\ stride \in 1..MaxStride
    /\ Blank

(* the script as configured in the source, on inputs of at most one group *)
InitConfigured ==
    /\ pc = "start"
    /\ status = OK200
    /\ body \in {Blob(k, bad) : k \in 0..1, bad \in BOOLEAN}
    /\ now \in Clocks
    /\ max_sats = MAX_SATS
    /\ num_frames = NUM_FRAMES
    /\ stride = FRAME_STEP
    /\ Blank

Init == InitBounded \/ InitConfigured

Next ==
    \/ Fetch
    \/ ParseStep
    \/ ParseReturn
    \/ TimeGrid
    \/ PropagateStep
    \/ MakeColors
    \/ OrbitTraceStep
    \/ OrbitTracesDone
    \/ InitialMarkerStep
    \/ BuildFigure
    \/ FrameStep
    \/ Layout
    \/ MakeDirs
    \/ WriteOverview
    \/ ViewStep
    \/ ResetCamera
    \/ ExportStep
    \/ WriteHtml

Spec == Init /\ [][Next]_vars

(* load_satellites alone, on every line sequence up to MaxLines *)
InitParse ==
    /\ pc = "start"
    /\ status = OK200
    /\ body \in ParserInputs
    /\ now \in {StartTime}
    /\ max_sats \in 0..MaxM
    /\ num_frames = 1
    /\ stride = 1
    /\ Blank

NextParse ==
    \/ Fetch
    \/ ParseStep
    \/ ParseReturn

SpecParse == InitParse /\ [][NextParse]_vars

(* the same on inputs up to MaxFairLines; the function runs its           *)
(* statements one after the other, so a step that can be taken is taken   *)
InitParseFair == InitParse /\ Len(body) <= MaxFairLines

FairSpecParse == InitParseFair /\ [][NextParse]_vars /\ WF_vars(NextParse)

(* the script on inputs of at most MaxFairGroups well-formed groups; it   *)
(* is sequential, so a step that can be taken is taken                    *)
InitFair == InitBounded /\ Len(body) <= 3 * (MaxFairGroups + 1)

FairSpec == InitFair /\ [][Next]_vars /\ WF_vars(Next)

----------------------------------------------------------------------------
(* Properties of load_satellites *)

Min(a, b) == IF a < b THEN a ELSE b

(* the consecutive groups of three, starting at the first line *)
GroupsOf(ls) == [k \in 1..(Len(ls) \div 3) |-> <<ls[3 * k - 2], ls[3 * k - 1], ls[3 * k]>>]

WellFormed(g) ==
    /\ Len(strip(g[2])) >= 2 /\ strip(g[2])[1] = "1" /\ strip(g[2])[2] = " "
    /\ Len(strip(g[3])) >= 2 /\ strip(g[3])[1] = "2" /\ strip(g[3])[2] = " "

RecordOf(g) == [name |-> strip(g[1]), line1 |-> strip(g[2]), line2 |-> strip(g[3])]

(* the first m well-formed groups, in input order, as records *)
Reference(ls, m) ==
    LET kept == SelectSeq(GroupsOf(ls), WellFormed)
    IN  [k \in 1..Min(m, Len(kept)) |-> RecordOf(kept[k])]

(* C1: the list returned by load_satellites is the first max_sats          *)
(* well-formed groups of three of the input, in input order, each with its *)
(* trimmed name, line1 and line2.                                          *)
C1_LoadEqualsReference ==
    pc = "loaded" => satellites = Reference(body, max_sats)

(* a malformed group between two well-formed ones was skipped, both kept *)
C1_Witness ==
    /\ pc = "loaded"
    /\ Len(body) = 9
    /\ max_sats = 2
    /\ WellFormed(GroupsOf(body)[1])
    /\ ~WellFormed(GroupsOf(body)[2])
    /\ WellFormed(GroupsOf(body)[3])
    /\ satellites = <<RecordOf(GroupsOf(body)[1]), RecordOf(GroupsOf(body)[3])>>

(* C2: in every state of the parse loop the accumulated list has at most   *)
(* max_sats records and each record's line1 starts with "1 " and its line2 *)
(* with "2 ".                                                              *)
C2_LoopInvariant ==
    /\ Len(satellites) <= max_sats
    /\ \A k \in 1..Len(satellites) :
          /\ Len(satellites[k].line1) >= 2
          /\ SubSeq(satellites[k].line1, 1, 2) = <<"1", " ">>
          /\ Len(satellites[k].line2) >= 2
          /\ SubSeq(satellites[k].line2, 1, 2) = <<"2", " ">>

(* mid-loop, the list is full while whole groups are still unread *)
C2_Witness ==
    /\ pc = "parse"
    /\ max_sats > 0
    /\ Len(satellites) = max_sats
    /\ i + 2 < Len(lines)

(* the loop has stopped for one of its two reasons *)
StopCondition == Len(satellites) = max_sats \/ Len(lines) - i < 3

C3_Safe ==
    /\ pc # "failed"
    /\ i % 3 = 0
    /\ i <= Len(lines)
    /\ pc = "loaded" => StopCondition
    /\ (pc = "loaded" /\ Len(satellites) < max_sats) => i = 3 * (Len(lines) \div 3)

(* C3: the parse loop terminates without error; it stops exactly when      *)
(* max_sats records are accumulated or fewer than 3 unread lines remain,   *)
(* and never reads at or past the end of the input.                        *)
C3_TerminatesAtStopCondition ==
    /\ []C3_Safe
    /\ [][(pc = "parse" /\ StopCondition) <=> (pc = "parse" /\ pc' = "loaded")]_vars
    /\ <>(pc = "loaded")

(* a 3N+2 line input was read to its last full group and the rest dropped *)
C3_Witness ==
    /\ pc = "loaded"
    /\ Len(lines) >= 5
    /\ Len(lines) % 3 = 2
    /\ Len(satellites) < max_sats
    /\ i = Len(lines) - 2

----------------------------------------------------------------------------
(* Properties of the pipeline *)

(* coordinate of satellite record r at grid index f, on a grid of n points *)
(* anchored at 1 February 2026                                             *)
CoordAt(axis, r, f, n) ==
    <<axis, r.line1, r.line2, [anchor |-> <<2026, 2, 1>>, k |-> f, n |-> n]>>

(* the marker a figure should hold for satellite j (from 1) at grid index f *)
HoldsPosition(m, j, f) ==
    /\ m.x = <<CoordAt(0, satellites[j], f, num_frames)>>
    /\ m.y = <<CoordAt(1, satellites[j], f, num_frames)>>
    /\ m.z = <<CoordAt(2, satellites[j], f, num_frames)>>

FrameFiles == SelectSeq(files, LAMBDA w : w.kind = "frame")

DigitValue(c) == CHOOSE d \in 0..9 : Digit(d) = c

RECURSIVE Number(_)
Number(s) == IF s = <<>> THEN 0
             ELSE 10 * Number(SubSeq(s, 1, Len(s) - 1)) + DigitValue(s[Len(s)])

(* C4: the export loop visits the grid indices 0, S, 2S, ... below N in    *)
(* increasing order, once each; the k-th image written is numbered k and   *)
(* shows the snapshot of grid index k * S; 300 points at stride 2 give     *)
(* exactly the images 0..149.                                              *)
C4_ExportVisitsStridedIndices ==
    /\ pc = "export" => /\ frame_num = frame_idx * stride
                        /\ Len(FrameFiles) = frame_idx
                        /\ (frame_idx - 1) * stride < num_frames
    /\ \A k \in 1..Len(FrameFiles) :
          /\ Len(FrameFiles[k].name) = 4
          /\ Number(FrameFiles[k].name) = k - 1
          /\ Len(FrameFiles[k].markers) = Len(satellites)
          /\ \A j \in 1..Len(satellites) :
                HoldsPosition(FrameFiles[k].markers[j], j, (k - 1) * stride)
    /\ pc = "done" => Len(FrameFiles) = (num_frames + stride - 1) \div stride
    /\ (pc = "done" /\ num_frames = 300 /\ stride = 2) => Len(FrameFiles) = 150

(* the configured run: 300 grid points, stride 2, one satellite, 150 images *)
C4_Witness ==
    /\ pc = "done"
    /\ num_frames = 300
    /\ stride = 2
    /\ Len(satellites) = 1
    /\ Len(FrameFiles) = 150
    /\ Number(FrameFiles[150].name) = 149
    /\ HoldsPosition(FrameFiles[150].markers[1], 1, 298)

FramesBuilt == pc \in {"makedirs", "overview", "views", "export", "done"}

GoodFrame(fr, f) ==
    /\ Number(fr.name) = f
    /\ Len(fr.data) = Len(satellites)
    /\ \A j \in 1..Len(satellites) :
          /\ fr.data[j].name = SubSeq(satellites[j].name, 1, Min(20, Len(satellites[j].name)))
          /\ fr.data[j].color = Palette[((j - 1) % 10) + 1]
          /\ HoldsPosition(fr.data[j], j, f)

(* C5: exactly NUM_FRAMES frames are built, frame f is named f, and entry  *)
(* j of every frame carries the display name, the colour and the position  *)
(* at grid index f of the j-th parsed satellite, one entry per satellite.  *)
C5_FramesKeepIdentity ==
    /\ \A f \in 1..Len(frames) : GoodFrame(frames[f], f - 1)
    /\ Len(frames) <= num_frames
    /\ FramesBuilt => (Len(frames) = num_frames /\ fig.frames = frames)

C5_Witness ==
    /\ pc = "done"
    /\ Len(satellites) >= 3
    /\ num_frames >= 2
    /\ Len(fig.frames) = num_frames
    /\ Len(satellites[3].name) > 20
    /\ fig.frames[2].data[3].x # fig.frames[2].data[1].x
    /\ fig.frames[2].data[3].x # fig.frames[1].data[3].x

(* C6: at every static image write and at the write of the interactive     *)
(* document, each marker trace of the figure holds its satellite's         *)
(* position at grid index 0.                                               *)
C6_WrittenMarkersAreInitialState ==
    \A k \in 1..Len(files) :
        files[k].kind \in {"static", "html"} =>
            /\ Len(files[k].markers) = Len(satellites)
            /\ \A j \in 1..Len(satellites) : HoldsPosition(files[k].markers[j], j, 0)


NothingProduced ==
    /\ satellites = <<>>
    /\ lines = <<>>
    /\ i = 0
    /\ positions = <<>>
    /\ dirs = {}
    /\ files = <<>>

(* the fetch is made once, first, and nothing exists before it *)
FetchOnceFirst ==
    /\ fetches \in {0, 1}
    /\ fetches = 0 <=> pc = "start"
    /\ pc = "start" => NothingProduced

(* C7 as stated: a timeout or any non-2xx response ends the run at once,   *)
(* with no record, no position and no output.                              *)
C7_Original ==
    /\ FetchOnceFirst
    /\ (pc # "start" /\ (~status.answered \/ status.code < 200 \/ status.code > 299))
          => (pc = "failed" /\ NothingProduced)

(* C7 (amended): the fetch is attempted exactly once and before anything   *)
(* else; if it times out or is answered with a 4xx or 5xx status the run   *)
(* fails at once, with no record, no position and no output.               *)
C7_FetchFailureIsFatal ==
    /\ FetchOnceFirst
    /\ (pc # "start" /\ (~status.answered \/ (status.code >= 400 /\ status.code <= 599)))
          => (pc = "failed" /\ NothingProduced)

C7_Witness ==
    /\ pc = "failed"
    /\ fetches = 1
    /\ status.answered
    /\ status.code = 404
    /\ body # <<>>

StaticFiles == SelectSeq(files, LAMBDA w : w.kind = "static")

EmptyScene ==
    /\ positions = <<>> /\ orbit_traces = <<>> /\ initial_markers = <<>>
    /\ fig.data \in {<<>>, <<[type |-> "surface", name |-> "Earth"]>>}
    /\ \A f \in 1..Len(frames) : frames[f].data = <<>>
    /\ \A k \in 1..Len(files) : files[k].ntraces = 1 /\ files[k].markers = <<>>
    /\ pc = "done" =>
          /\ Len(fig.frames) = num_frames
          /\ Len(StaticFiles) = 5
          /\ Len(FrameFiles) = (num_frames + stride - 1) \div stride
          /\ Len(files) = Len(StaticFiles) + Len(FrameFiles) + 1
          /\ files[Len(files)].kind = "html"

(* the fetch was answered without an error status and no group was valid *)
ParsedNothing ==
    /\ pc \notin {"start", "parse"}
    /\ status.answered /\ status.code < 400
    /\ satellites = <<>>

(* C8: when the parser returns no record the pipeline completes without a  *)
(* failure: the scene is the sphere alone, every frame's marker list is    *)
(* empty, and every static image, strided frame image and the document is  *)
(* written.                                                                *)
C8_EmptySetCompletes ==
    /\ [](ParsedNothing => (pc # "failed" /\ EmptyScene))
    /\ (pc = "loaded" /\ satellites = <<>>) ~> (pc = "done")

C8_Witness ==
    /\ pc = "done"
    /\ body # <<>>
    /\ satellites = <<>>
    /\ num_frames = 3
    /\ stride = 2
    /\ Len(files) = 8

(* C9: what a run produces is a function of the input text and the         *)
(* configuration alone, whatever the clock reads: the records, the         *)
(* position series and the frame snapshots are the ones fixed by the       *)
(* input, max_sats and num_frames with the grid anchored at 1 Feb 2026.    *)
C9_OutputsDependOnInputOnly ==
    LET recs == Reference(body, max_sats)
        series(r) == [axis \in 1..3 |-> [k \in 1..num_frames |-> CoordAt(axis - 1, r, k - 1, num_frames)]]
        snapshot(f) == [j \in 1..Len(recs) |->
                           <<recs[j].name, series(recs[j])[1][f], series(recs[j])[2][f],
                             series(recs[j])[3][f]>>]
    IN  /\ pc \notin {"start", "parse", "failed"} => satellites = recs
        /\ \A j \in 1..Len(positions) : positions[j] = series(recs[j])
        /\ pc \notin {"start", "parse", "failed", "loaded", "propagate"}
              => Len(positions) = Len(recs)
        /\ \A f \in 1..Len(frames) :
              [j \in 1..Len(frames[f].data) |->
                  <<satellites[j].name, frames[f].data[j].x[1], frames[f].data[j].y[1],
                    frames[f].data[j].z[1]>>] = snapshot(f)

(* a finished run on a host whose clock is not the grid's anchor *)
C9_Witness ==
    /\ pc = "done"
    /\ now # <<2026, 2, 1>>
    /\ Len(positions) >= 2
    /\ Len(frames) >= 2

(* C10: every colour lookup uses an index inside the colour list, whose    *)
(* length is 10 * (max_sats \div 10 + 1), and yields the palette entry at  *)
(* the index modulo 10, so a satellite's path, initial marker and frame    *)
(* markers share one colour.                                               *)
C10_ColourByIndexModuloTen ==
    /\ pc = "failed" => fetches = 1 /\ lines = <<>>
    /\ colors # <<>> => /\ Len(colors) = 10 * (max_sats \div 10 + 1)
                        /\ Len(satellites) <= max_sats
                        /\ Len(satellites) <= Len(colors)
    /\ \A j \in 1..Len(orbit_traces) : orbit_traces[j].color = Palette[((j - 1) % 10) + 1]
    /\ \A j \in 1..Len(initial_markers) :
          initial_markers[j].color = orbit_traces[j].color
    /\ \A f \in 1..Len(frames) : \A j \in 1..Len(frames[f].data) :
          frames[f].data[j].color = orbit_traces[j].color

(* eleven satellites: the eleventh wraps to the first palette entry *)
C10_Witness ==
    /\ pc = "done"
    /\ Len(satellites) = 11
    /\ orbit_traces[11].color = Palette[1]
    /\ initial_markers[11].color = Palette[1]
    /\ frames[1].data[11].color = Palette[1]
    /\ orbit_traces[10].color = Palette[10]

====
